---- MODULE Spec2Model ----
(***************************************************************************)
(* github-codex-bot (src/bot.py): the webhook handler github_webhook, the  *)
(* signature verifier, the prompt generator, the comment publisher, the    *)
(* notification dispatcher and the retrying HTTP sender, as one state      *)
(* machine.  One request is handled at a time: the handler is a coroutine  *)
(* whose only await is the read of the body, and every call it makes after *)
(* that is a blocking call on the event loop's thread.                     *)
(***************************************************************************)
EXTENDS Integers, Sequences, FiniteSets, TLC

(***************************************************************************)
(* State.                                                                  *)
(***************************************************************************)
VARIABLES
    env,        \* the environment-derived module constants
    pc,         \* the position of the module load, then of the handler
    request,    \* the inbound request being handled
    payload,    \* json.loads(raw_body)
    locals,     \* github_webhook's local variables
    sending,    \* _send_with_retries' frame: action_name and attempt
    response,   \* what _send_with_retries returned to its caller
    calls,      \* the calls the handler has made for this request, in order
    resp,       \* the HTTP response to the inbound request
    os_environ, \* the process environment the module is loaded in
    loaded,     \* the required names _require_env has returned a value for
    load_error, \* the name the RuntimeError of _require_env carries
    backlog,    \* connections that have arrived and wait for the event loop
    verdicts    \* the calls of _verify_signature made on their own, in order

\* What no step of the handler changes.
fixed == <<env, os_environ, loaded, load_error, backlog, verdicts>>

vars == <<env, pc, request, payload, locals, sending, response, calls, resp,
          os_environ, loaded, load_error, backlog, verdicts>>

(***************************************************************************)
(* Python values.  A key that a dict does not hold is Missing; JSON null   *)
(* and an unset environment variable are PyNone.                           *)
(***************************************************************************)
Missing == "<missing>"
PyNone == "<None>"

\* Largest HTTP_MAX_RETRIES of the calls made on their own (1..MaxAttemptsBound).
MaxAttemptsBound == 3

\* Number of direct calls of _verify_signature that are recorded.
MaxVerifications == 2

\* Largest number of connections waiting to be accepted.
MaxBacklog == 2

\* Largest HTTP_MAX_RETRIES the environment is drawn from (1..MaxRetriesBound).
MaxRetriesBound == 2

\* Process configuration read at import (test values of tests/conftest.py).
WATCH_USER == "GROBimbo"
GITHUB_WEBHOOK_SECRET == "super-secret"

\* str(v) as an f-string formats it: None prints as the text None.
Str(v) == IF v = PyNone THEN "None" ELSE v

\* bool(v) of a str-or-None value: None and the empty string are falsy.
Truthy(v) == v # PyNone /\ v # ""

(***************************************************************************)
(* Inbound payloads.  A JSON document is an array (any non-object) or an   *)
(* object whose members sender, issue and comment are each missing, null   *)
(* or an object; string members are missing, null, empty or a text.        *)
(***************************************************************************)
NoFields == [login |-> Missing, number |-> Missing, title |-> Missing, body |-> Missing]

Member(shape, f) == [shape |-> shape, f |-> f]

Logins == {WATCH_USER, "someone-else"}
Numbers == {"8"}
Titles == {"", "Deck stats"}
Bodies == {PyNone, "", "Please add stats"}
CommentBodies == {Missing, "", "I have more details"}
Actions == {"opened", "created", "edited"}

NonObjects == {Member("missing", NoFields), Member("null", NoFields)}

SenderValues ==
    NonObjects \cup {Member("object", [NoFields EXCEPT !.login = l]) : l \in Logins}

IssueValues ==
    NonObjects \cup
    {Member("object", [NoFields EXCEPT !.number = n, !.title = t, !.body = b]) :
        n \in Numbers, t \in Titles, b \in Bodies}

CommentValues ==
    NonObjects \cup {Member("object", [NoFields EXCEPT !.body = b]) : b \in CommentBodies}

EmptyDoc ==
    [shape |-> "array", action |-> Missing, sender |-> Member("missing", NoFields),
     issue |-> Member("missing", NoFields), comment |-> Member("missing", NoFields)]

JsonDocs ==
    {EmptyDoc} \cup
    [shape : {"object"}, action : Actions, sender : SenderValues,
     issue : IssueValues, comment : CommentValues]

\* The raw body: bytes that are not UTF-8, text that is not JSON, or a JSON document.
RawBodies ==
    {[kind |-> k, doc |-> EmptyDoc] : k \in {"bad_utf8", "not_json"}}
    \cup {[kind |-> "json", doc |-> d] : d \in JsonDocs}

(***************************************************************************)
(* Signature headers.  A header value is a sequence of tokens: a literal   *)
(* piece of text, or the hex digest of a MAC, kept symbolic as the key and *)
(* the message it was computed from (two digests are equal exactly when    *)
(* key and message are).                                                   *)
(***************************************************************************)
NoMac == [key |-> "", msg |-> [kind |-> "not_json", doc |-> EmptyDoc]]

Lit(s) == [lit |-> s, mac |-> NoMac]

\* hmac.new(key, msg, hashlib.sha256).hexdigest()
HexDigest(key, msg) == <<[lit |-> "<hexdigest>", mac |-> [key |-> key, msg |-> msg]]>>

\* A character outside ASCII (a header byte >= 0x80, decoded as latin-1).
NonAscii == Lit("<non-ascii>")

IsAscii(toks) == \A i \in 1..Len(toks) : toks[i] # NonAscii

NoHeader == [present |-> FALSE, toks |-> <<>>]

Header(toks) == [present |-> TRUE, toks |-> toks]

\* The X-Hub-Signature-256 values a sender of body b is drawn from.
SignatureHeaders(b) ==
    { NoHeader,
      Header(HexDigest(GITHUB_WEBHOOK_SECRET, b)),
      Header(<<Lit("sha1"), Lit("=")>> \o HexDigest(GITHUB_WEBHOOK_SECRET, b)),
      Header(<<Lit("sha256"), Lit("="), Lit("deadbeef")>>),
      Header(<<Lit("sha256"), Lit("=")>> \o HexDigest("not-the-secret", b)),
      Header(<<Lit("sha256"), Lit("="), NonAscii>>),
      Header(<<Lit("sha256"), Lit("=")>> \o HexDigest(GITHUB_WEBHOOK_SECRET, b)) }

\* header_signature.split("=", 1): the index of the first "=", 0 when there is none.
FirstEq(toks) ==
    IF \E i \in 1..Len(toks) : toks[i] = Lit("=")
    THEN CHOOSE i \in 1..Len(toks) :
            /\ toks[i] = Lit("=")
            /\ \A j \in 1..(i - 1) : toks[j] # Lit("=")
    ELSE 0

\* hmac.compare_digest(a, b) on two str: TypeError unless both are ASCII.
compare_digest(a, b) ==
    IF ~(IsAscii(a) /\ IsAscii(b)) THEN "TypeError"
    ELSE IF a = b THEN "True" ELSE "False"

\* _verify_signature without its test of the algorithm prefix.
verify_signature_any_algo(header_signature, raw_body) ==
    IF ~header_signature.present \/ header_signature.toks = <<>> THEN "False"
    ELSE LET toks == header_signature.toks
             eq == FirstEq(toks)
         IN IF eq = 0 THEN "False"
            ELSE compare_digest(HexDigest(GITHUB_WEBHOOK_SECRET, raw_body),
                                SubSeq(toks, eq + 1, Len(toks)))

\* _verify_signature with a memory: a signature it accepted once is refused
\* when it is presented again.
verify_signature_once(header_signature, raw_body) ==
    IF \E i \in 1..Len(verdicts) :
            /\ verdicts[i].signature = header_signature
            /\ verdicts[i].body = raw_body
            /\ verdicts[i].verdict = "True"
    THEN "False"
    ELSE IF ~header_signature.present \/ header_signature.toks = <<>> THEN "False"
    ELSE LET toks == header_signature.toks
             eq == FirstEq(toks)
         IN IF eq = 0 THEN "False"
            ELSE LET algo == SubSeq(toks, 1, eq - 1)
                     signature == SubSeq(toks, eq + 1, Len(toks))
                 IN IF algo # <<Lit("sha256")>> THEN "False"
                    ELSE compare_digest(HexDigest(GITHUB_WEBHOOK_SECRET, raw_body), signature)

\* _verify_signature(header_signature, payload), payload being the raw body: "True", "False", or the
\* exception that leaves it.
_verify_signature(header_signature, raw_body) ==
    IF ~header_signature.present \/ header_signature.toks = <<>> THEN "False"
    ELSE LET toks == header_signature.toks
             eq == FirstEq(toks)
         IN IF eq = 0 THEN "False"
            ELSE LET algo == SubSeq(toks, 1, eq - 1)
                     signature == SubSeq(toks, eq + 1, Len(toks))
                 IN IF algo # <<Lit("sha256")>> THEN "False"
                    ELSE compare_digest(HexDigest(GITHUB_WEBHOOK_SECRET, raw_body), signature)

\* X-GitHub-Event values (Missing: the header is not sent).
EventHeaders == {Missing, "push", "issues", "issue_comment"}

Requests ==
    UNION {[body : {b}, signature : SignatureHeaders(b), event : EventHeaders] :
            b \in RawBodies}

(***************************************************************************)
(* json.loads(raw_body): the document, or the exception that leaves it.    *)
(* Bytes that are not UTF-8 raise UnicodeDecodeError, which is a           *)
(* ValueError but not a json.JSONDecodeError.                              *)
(***************************************************************************)
json_loads(raw_body) ==
    CASE raw_body.kind = "bad_utf8" -> [exc |-> "UnicodeDecodeError", doc |-> EmptyDoc]
      [] raw_body.kind = "not_json" -> [exc |-> "JSONDecodeError", doc |-> EmptyDoc]
      [] OTHER -> [exc |-> "", doc |-> raw_body.doc]

\* d.get(key, default) on a member: the default when the key is missing.
Get(v, default) == IF v = Missing THEN default ELSE v

\* payload.get(name, {}) yields a dict exactly when the member is missing or an object.
IsDict(m) == m.shape \in {"missing", "object"}

(***************************************************************************)
(* Outbound backends.                                                      *)
(***************************************************************************)
\* What openai_client.responses.create does: the client is None, the call
\* raises, the completion has no output_text, or it carries a text.
GenOutcomes ==
    {[kind |-> k, output_text |-> <<>>] : k \in {"no_client", "api_error", "malformed"}}
    \cup {[kind |-> "ok", output_text |-> <<" ", "Implement stats", "\n">>]}

Whitespace == {" ", "\n", "\t"}

RECURSIVE LStrip(_)
LStrip(toks) ==
    IF toks # <<>> /\ Head(toks) \in Whitespace THEN LStrip(Tail(toks)) ELSE toks

RECURSIVE RStrip(_)
RStrip(toks) ==
    IF toks # <<>> /\ toks[Len(toks)] \in Whitespace
    THEN RStrip(SubSeq(toks, 1, Len(toks) - 1)) ELSE toks

RECURSIVE Join(_)
Join(toks) == IF toks = <<>> THEN "" ELSE Head(toks) \o Join(Tail(toks))

\* str.strip()
Strip(toks) == Join(RStrip(LStrip(toks)))

\* The fixed text returned on failure (after its emoji).
Placeholder == "Failed to generate Codex prompt."

\* generate_codex_prompt that lets a completion without text through.
generate_codex_prompt_unguarded(issue_text, outcome) ==
    IF outcome.kind \in {"ok", "malformed"} THEN Strip(outcome.output_text) ELSE Placeholder

\* generate_codex_prompt(issue_text) under a backend outcome: every exception
\* is caught and turned into the placeholder.
generate_codex_prompt(issue_text, outcome) ==
    IF outcome.kind = "ok" THEN Strip(outcome.output_text) ELSE Placeholder

\* The banner line (after its emoji) and the code fence of three backquotes,
\* which a string of this language cannot hold.
Banner == "**Prompt ready for Codex:**"
Fence == "<fence>"

\* The comment body github_webhook builds around the prompt.
CommentBody(codex_prompt) ==
    Banner \o "\n\n" \o Fence \o "\n" \o codex_prompt \o "\n" \o Fence

\* The text handed to the generator.
SelectText(comment, issue_title, body) ==
    IF Truthy(comment) THEN comment ELSE Str(issue_title) \o "\n\n" \o Str(body)

\* A transport error (requests.RequestException) instead of a response.
RequestException == -1

\* The transport error of a request the server had already taken: the read
\* timed out (requests.ReadTimeout, a RequestException) after it was served.
TimeoutAfterAccept == -2

TransportErrors == {RequestException, TimeoutAfterAccept}

\* _send_with_retries returned None.
NoResponse == 0

GithubStatuses == {200, 201, 204, 404}
PushoverStatuses == {200, 400}

\* bool(response) and response.ok of a requests.Response: the status is below 400.
ResponseOk(status) == status # NoResponse /\ status < 400

\* The success test without the test of the status code.
CommentPosted_AnyOk(r) == ResponseOk(r)

\* post_github_comment's success test on the response it got.
CommentPosted(r) == ResponseOk(r) /\ r \in {200, 201}

\* The test of the Pushover keys as a test against None only.
PushoverConfigured_NotNone(e) ==
    e.PUSHOVER_USER_KEY # PyNone /\ e.PUSHOVER_API_TOKEN # PyNone

\* not (PUSHOVER_USER_KEY and PUSHOVER_API_TOKEN)
PushoverConfigured(e) == Truthy(e.PUSHOVER_USER_KEY) /\ Truthy(e.PUSHOVER_API_TOKEN)

Environments ==
    [PUSHOVER_USER_KEY : {PyNone, "user"}, PUSHOVER_API_TOKEN : {PyNone, "token"},
     HTTP_MAX_RETRIES : 1..MaxRetriesBound]

(***************************************************************************)
(* Frames of the handler.                                                  *)
(***************************************************************************)

NoRequest == [body |-> [kind |-> "not_json", doc |-> EmptyDoc], signature |-> NoHeader,
              event |-> Missing]

NoLocals ==
    [sender |-> "", issue_number |-> PyNone, issue_title |-> "", body |-> "",
     comment |-> PyNone, text |-> "", codex_prompt |-> "", comment_body |-> "",
     message |-> ""]

NoSending == [action_name |-> "", attempt |-> 0]

NoResp == [status |-> 0, msg |-> ""]

\* An unhandled exception: the server answers 500.
ServerError == [status |-> 500, msg |-> "Internal Server Error"]

\* One entry of calls.  n is the attempt number of a requests.post and the
\* backoff multiplier of a time.sleep; result is what a requests.post gave.
Call(op, number, title, text, n, note) ==
    [op |-> op, number |-> number, title |-> title, text |-> text, n |-> n,
     note |-> note, result |-> NoResponse]

\* The required configuration, in the order the module reads it.
RequiredNames ==
    <<"GITHUB_TOKEN", "OPENAI_API_KEY", "WATCH_USER", "REPO", "GITHUB_WEBHOOK_SECRET">>

\* No request is in the handler.
NoFrame ==
    /\ request = NoRequest
    /\ payload = EmptyDoc
    /\ locals = NoLocals
    /\ sending = NoSending
    /\ response = NoResponse
    /\ calls = <<>>
    /\ resp = NoResp

\* The module has been loaded with every required value set.
Loaded ==
    /\ os_environ = [i \in 1..Len(RequiredNames) |-> "set"]
    /\ loaded = RequiredNames
    /\ load_error = ""

Init ==
    /\ env \in Environments
    /\ pc = "idle"
    /\ NoFrame
    /\ Loaded
    /\ backlog = 0
    /\ verdicts = <<>>

\* The server accepts a request and github_webhook reads its body and headers.
Receive ==
    /\ pc = "idle"
    /\ pc' = "verify"
    /\ request' \in Requests
    /\ UNCHANGED <<fixed, payload, locals, sending, response, calls, resp>>

\* The response is sent and the request's frame is dropped: nothing of a
\* request outlives it.
Close ==
    /\ pc = "done"
    /\ pc' = "idle"
    /\ request' = NoRequest
    /\ payload' = EmptyDoc
    /\ locals' = NoLocals
    /\ sending' = NoSending
    /\ response' = NoResponse
    /\ calls' = <<>>
    /\ resp' = NoResp
    /\ UNCHANGED fixed

\* The handler ends with the HTTP response r.
Finish(r) ==
    /\ pc' = "done"
    /\ resp' = r

\* if not _verify_signature(signature, raw_body): raise HTTPException(401)
VerifySignature ==
    /\ pc = "verify"
    /\ LET ok == _verify_signature(request.signature, request.body)
       IN CASE ok = "True" -> pc' = "parse" /\ UNCHANGED resp
            [] ok = "False" -> Finish([status |-> 401, msg |-> "Invalid signature"])
            [] OTHER -> Finish(ServerError)
    /\ UNCHANGED <<fixed, request, payload, locals, sending, response, calls>>

\* payload = json.loads(raw_body), except json.JSONDecodeError: 400
ParseBody ==
    /\ pc = "parse"
    /\ LET parsed == json_loads(request.body)
       IN CASE parsed.exc = "" ->
                    /\ payload' = parsed.doc
                    /\ pc' = "event"
                    /\ UNCHANGED resp
            [] parsed.exc = "JSONDecodeError" ->
                    /\ Finish([status |-> 400, msg |-> "Invalid JSON payload"])
                    /\ UNCHANGED payload
            [] OTHER ->
                    /\ Finish(ServerError)
                    /\ UNCHANGED payload
    /\ UNCHANGED <<fixed, request, locals, sending, response, calls>>

AcceptedEvents == {"issues", "issue_comment"}

\* The event-type filter with issues as the default of a missing header.
FilterEvent_DefaultIssues ==
    /\ pc = "event"
    /\ LET event == Get(request.event, "issues")
       IN IF event \notin AcceptedEvents
          THEN Finish([status |-> 200, msg |-> "ignored"])
          ELSE pc' = "extract" /\ UNCHANGED resp
    /\ UNCHANGED <<fixed, request, payload, locals, sending, response, calls>>

\* event = request.headers.get("X-GitHub-Event", "ping"); the event-type filter.
FilterEvent ==
    /\ pc = "event"
    /\ LET event == Get(request.event, "ping")
       IN IF event \notin AcceptedEvents
          THEN Finish([status |-> 200, msg |-> "ignored"])
          ELSE pc' = "extract" /\ UNCHANGED resp
    /\ UNCHANGED <<fixed, request, payload, locals, sending, response, calls>>

\* The field extraction: .get on a value that is no dict raises AttributeError.
ExtractFields ==
    /\ pc = "extract"
    /\ IF /\ payload.shape = "object"
          /\ IsDict(payload.sender)
          /\ IsDict(payload.issue)
          /\ IsDict(payload.comment)
       THEN /\ locals' = [locals EXCEPT
                    !.sender = Get(payload.sender.f.login, ""),
                    !.issue_number = Get(payload.issue.f.number, PyNone),
                    !.issue_title = Get(payload.issue.f.title, ""),
                    !.body = Get(payload.issue.f.body, ""),
                    !.comment = Get(payload.comment.f.body, PyNone)]
            /\ pc' = "sender"
            /\ UNCHANGED resp
       ELSE /\ Finish(ServerError)
            /\ UNCHANGED locals
    /\ UNCHANGED <<fixed, request, payload, sending, response, calls>>

\* if sender != WATCH_USER: return {"msg": "ignored"}
FilterSender ==
    /\ pc = "sender"
    /\ IF locals.sender # WATCH_USER
       THEN Finish([status |-> 200, msg |-> "ignored"])
       ELSE pc' = "generate" /\ UNCHANGED resp
    /\ UNCHANGED <<fixed, request, payload, locals, sending, response, calls>>

\* text = comment if comment else f"{issue_title}\n\n{body}";
\* codex_prompt = generate_codex_prompt(text); the comment body around it.
GeneratePrompt(outcome) ==
    /\ pc = "generate"
    /\ LET text == SelectText(locals.comment, locals.issue_title, locals.body)
           codex_prompt == generate_codex_prompt(text, outcome)
       IN /\ locals' = [locals EXCEPT !.text = text,
                                      !.codex_prompt = codex_prompt,
                                      !.comment_body = CommentBody(codex_prompt)]
          /\ calls' = Append(calls,
                Call("generate_codex_prompt", PyNone, "", text, 0, outcome.kind))
    /\ pc' = "post_comment"
    /\ UNCHANGED <<fixed, request, payload, sending, response, resp>>

\* post_github_comment(issue_number, issue_title, comment_body) is entered and
\* hands its request to _send_with_retries.
PostGithubComment ==
    /\ pc = "post_comment"
    /\ calls' = Append(calls,
            Call("post_github_comment", locals.issue_number, locals.issue_title,
                 locals.comment_body, 0, ""))
    /\ sending' = [action_name |-> "GitHub comment", attempt |-> 1]
    /\ pc' = "send"
    /\ UNCHANGED <<fixed, request, payload, locals, response, resp>>

\* Where _send_with_retries returns to.
ReturnSite(action_name) ==
    IF action_name = "GitHub comment" THEN "comment_result" ELSE "notify_result"

Outcomes(action_name) ==
    IF action_name = "GitHub comment"
    THEN TransportErrors \cup GithubStatuses
    ELSE {RequestException} \cup PushoverStatuses

\* The request the factory of this frame sends.
OutboundRequest ==
    IF sending.action_name = "GitHub comment"
    THEN Call("requests.post", locals.issue_number, "", locals.comment_body,
              sending.attempt, sending.action_name)
    ELSE Call("requests.post", locals.issue_number, locals.issue_title,
              locals.message, sending.attempt, sending.action_name)

\* The loop test off by one: a wait and one more attempt after the last.
HasNextAttempt_OffByOne(attempt, max) == attempt <= max

\* Whether the loop of _send_with_retries has another attempt after this one.
HasNextAttempt(attempt, max) == attempt < max

\* One pass of the loop of _send_with_retries: request_factory() returns a
\* response, which is returned whatever its status, or raises.
SendAttempt(outcome) ==
    /\ pc = "send"
    /\ outcome \in Outcomes(sending.action_name)
    /\ calls' = Append(calls, [OutboundRequest EXCEPT !.result = outcome])
    /\ IF outcome \notin TransportErrors
       THEN /\ response' = outcome
            /\ pc' = ReturnSite(sending.action_name)
       ELSE IF HasNextAttempt(sending.attempt, env.HTTP_MAX_RETRIES)
            THEN /\ pc' = "backoff"
                 /\ UNCHANGED response
            ELSE /\ response' = NoResponse
                 /\ pc' = ReturnSite(sending.action_name)
    /\ UNCHANGED <<fixed, request, payload, locals, sending, resp>>

\* The wait without the attempt number as its factor.
Backoff_Constant ==
    /\ pc = "backoff"
    /\ calls' = Append(calls, Call("time.sleep", PyNone, "", "", 1, sending.action_name))
    /\ sending' = [sending EXCEPT !.attempt = @ + 1]
    /\ pc' = "send"
    /\ UNCHANGED <<fixed, request, payload, locals, response, resp>>

\* time.sleep(HTTP_RETRY_BACKOFF_SECONDS * attempt), then the next attempt.
Backoff ==
    /\ pc = "backoff"
    /\ calls' = Append(calls,
            Call("time.sleep", PyNone, "", "", sending.attempt, sending.action_name))
    /\ sending' = [sending EXCEPT !.attempt = @ + 1]
    /\ pc' = "send"
    /\ UNCHANGED <<fixed, request, payload, locals, response, resp>>

\* msg = f"... Comment posted to issue #{issue_number}" (after its emoji)
SuccessMessage(issue_number) == "Comment posted to issue #" \o Str(issue_number)

\* post_github_comment that lets a failed publish out as an exception.
CommentResult_Raises ==
    /\ pc = "comment_result"
    /\ IF CommentPosted(response)
       THEN /\ locals' = [locals EXCEPT !.message = SuccessMessage(locals.issue_number)]
            /\ calls' = Append(calls,
                    Call("notify_pushover", locals.issue_number, locals.issue_title,
                         SuccessMessage(locals.issue_number), 0, ""))
            /\ pc' = "notify"
            /\ UNCHANGED resp
       ELSE /\ Finish(ServerError)
            /\ UNCHANGED <<calls, locals>>
    /\ UNCHANGED <<fixed, request, payload, sending, response>>

\* post_github_comment after _send_with_retries: return on no response or a
\* status outside [200, 201], else notify_pushover(issue_title, issue_number, msg).
CommentResult ==
    /\ pc = "comment_result"
    /\ IF CommentPosted(response)
       THEN /\ locals' = [locals EXCEPT !.message = SuccessMessage(locals.issue_number)]
            /\ calls' = Append(calls,
                    Call("notify_pushover", locals.issue_number, locals.issue_title,
                         SuccessMessage(locals.issue_number), 0, ""))
            /\ pc' = "notify"
       ELSE /\ pc' = "respond"
            /\ UNCHANGED <<calls, locals>>
    /\ UNCHANGED <<fixed, request, payload, sending, response, resp>>

\* notify_pushover: return when Pushover is not configured, else send.
NotifyPushover ==
    /\ pc = "notify"
    /\ IF PushoverConfigured(env)
       THEN /\ sending' = [action_name |-> "Pushover notification", attempt |-> 1]
            /\ pc' = "send"
       ELSE /\ pc' = "respond"
            /\ UNCHANGED sending
    /\ UNCHANGED <<fixed, request, payload, locals, response, calls, resp>>

\* notify_pushover after _send_with_retries: the outcome is logged only.
NotifyResult ==
    /\ pc = "notify_result"
    /\ pc' = "respond"
    /\ UNCHANGED <<fixed, request, payload, locals, sending, response, calls, resp>>

\* return {"msg": "processed"}
Respond ==
    /\ pc = "respond"
    /\ Finish([status |-> 200, msg |-> "processed"])
    /\ UNCHANGED <<fixed, request, payload, locals, sending, response, calls>>

Next ==
    \/ Receive
    \/ VerifySignature
    \/ ParseBody
    \/ FilterEvent
    \/ ExtractFields
    \/ FilterSender
    \/ \E outcome \in GenOutcomes : GeneratePrompt(outcome)
    \/ PostGithubComment
    \/ \E outcome \in GithubStatuses \cup PushoverStatuses \cup TransportErrors :
            SendAttempt(outcome)
    \/ Backoff
    \/ CommentResult
    \/ NotifyPushover
    \/ NotifyResult
    \/ Respond
    \/ Close

Spec == Init /\ [][Next]_vars

(***************************************************************************)
(* _send_with_retries called on its own: for each caller's request factory *)
(* and every HTTP_MAX_RETRIES from 1.                                      *)
(***************************************************************************)
SendEnvironments ==
    [PUSHOVER_USER_KEY : {"user"}, PUSHOVER_API_TOKEN : {"token"},
     HTTP_MAX_RETRIES : 1..MaxAttemptsBound]

SendInit ==
    /\ env \in SendEnvironments
    /\ pc = "send"
    /\ request = NoRequest
    /\ payload = EmptyDoc
    /\ locals \in {[NoLocals EXCEPT !.issue_number = n, !.issue_title = t,
                                    !.comment_body = CommentBody(Placeholder),
                                    !.message = SuccessMessage(n)] :
                        n \in Numbers \cup {PyNone}, t \in Titles}
    /\ sending \in [action_name : {"GitHub comment", "Pushover notification"},
                    attempt : {1}]
    /\ response = NoResponse
    /\ calls = <<>>
    /\ resp = NoResp
    /\ Loaded
    /\ backlog = 0
    /\ verdicts = <<>>

SendNext ==
    \/ \E outcome \in GithubStatuses \cup PushoverStatuses \cup TransportErrors :
            SendAttempt(outcome)
    \/ Backoff

SpecSend == SendInit /\ [][SendNext]_vars

(***************************************************************************)
(* notify_pushover called on its own, as tests/test_notifications.py calls *)
(* it: for every title, issue number and message, and with each Pushover   *)
(* key unset, empty or set.                                                *)
(***************************************************************************)
NotifyEnvironments ==
    [PUSHOVER_USER_KEY : {PyNone, "", "user"}, PUSHOVER_API_TOKEN : {PyNone, "", "token"},
     HTTP_MAX_RETRIES : 1..MaxAttemptsBound]

NotifyInit ==
    /\ env \in NotifyEnvironments
    /\ pc = "notify"
    /\ request = NoRequest
    /\ payload = EmptyDoc
    /\ locals \in {[NoLocals EXCEPT !.issue_number = n, !.issue_title = t, !.message = m] :
                        n \in {"8", "42"}, t \in {"", "Fix critical bug"},
                        m \in {"", "Prompt posted"}}
    /\ sending = NoSending
    /\ response = NoResponse
    /\ calls = <<>>
    /\ resp = NoResp
    /\ Loaded
    /\ backlog = 0
    /\ verdicts = <<>>

NotifyNext ==
    \/ NotifyPushover
    \/ \E outcome \in PushoverStatuses \cup TransportErrors : SendAttempt(outcome)
    \/ Backoff
    \/ NotifyResult

SpecNotify == NotifyInit /\ [][NotifyNext]_vars

(***************************************************************************)
(* Module load.  os_environ holds, for each required name in the order the *)
(* module reads them, the value the process was started with; loaded holds *)
(* the names bound so far.                                                 *)
(***************************************************************************)
EnvironValues == {Missing, "", "set"}

\* os.getenv(name)
os_getenv(environ, i) == IF environ[i] = Missing THEN PyNone ELSE environ[i]

Raised(name) == [exc |-> "RuntimeError", name |-> name, value |-> ""]

Value(v) == [exc |-> "", name |-> "", value |-> v]

\* _require_env with a test against None in place of the test of truth.
require_env_not_none(environ, i) ==
    LET value == os_getenv(environ, i)
    IN IF value = PyNone THEN Raised(RequiredNames[i]) ELSE Value(value)

\* _require_env(name), name being the i-th required name.
_require_env(environ, i) ==
    LET value == os_getenv(environ, i)
    IN IF ~Truthy(value) THEN Raised(RequiredNames[i]) ELSE Value(value)

StartupInit ==
    /\ env \in SendEnvironments
    /\ pc = "import"
    /\ NoFrame
    /\ os_environ \in [1..Len(RequiredNames) -> EnvironValues]
    /\ loaded = <<>>
    /\ load_error = ""
    /\ backlog = 0
    /\ verdicts = <<>>

\* NAME = _require_env("NAME"), the next of the five assignments.
RequireEnv ==
    /\ pc = "import"
    /\ Len(loaded) < Len(RequiredNames)
    /\ LET i == Len(loaded) + 1
           r == _require_env(os_environ, i)
       IN IF r.exc # ""
          THEN /\ pc' = "import_error"
               /\ load_error' = r.name
               /\ UNCHANGED loaded
          ELSE /\ loaded' = Append(loaded, RequiredNames[i])
               /\ UNCHANGED <<pc, load_error>>
    /\ UNCHANGED <<env, os_environ, backlog, verdicts,
                   request, payload, locals, sending, response, calls, resp>>

\* The rest of the module is executed and uvicorn serves the application.
Serve ==
    /\ pc = "import"
    /\ loaded = RequiredNames
    /\ pc' = "idle"
    /\ UNCHANGED <<fixed, request, payload, locals, sending, response, calls, resp>>

StartupNext ==
    \/ RequireEnv
    \/ Serve
    \/ Receive

SpecStartup == StartupInit /\ [][StartupNext]_vars

(***************************************************************************)
(* _verify_signature called on its own, any number of times up to          *)
(* MaxVerifications, while the server handles requests.  verdicts records  *)
(* each call: the secret, the header, the body, and what came out.         *)
(***************************************************************************)
VerifyBodies ==
    {[kind |-> "json", doc |-> EmptyDoc], [kind |-> "not_json", doc |-> EmptyDoc]}

OtherBody(b) == CHOOSE c \in VerifyBodies : c # b

\* sha256=<hex HMAC-SHA256 of b under the secret>
ValidHeader(b) == Header(<<Lit("sha256"), Lit("=")>> \o HexDigest(GITHUB_WEBHOOK_SECRET, b))

\* The header values of SignatureHeaders and further malformed ones: the
\* empty string, an empty digest, a digest that is too long, text that is
\* not hex, a second "=", and the valid signature of another body.
VerifyHeaders(b) ==
    SignatureHeaders(b) \cup
    { Header(<<>>),
      Header(<<Lit("sha256"), Lit("=")>>),
      Header(<<Lit("sha256"), Lit("=")>> \o HexDigest(GITHUB_WEBHOOK_SECRET, b) \o <<Lit("00")>>),
      Header(<<Lit("sha256"), Lit("="), Lit("not hex")>>),
      Header(<<Lit("sha256"), Lit("="), Lit("=")>> \o HexDigest(GITHUB_WEBHOOK_SECRET, b)),
      ValidHeader(OtherBody(b)) }

\* The requests the server handles meanwhile.
VerifyRequests ==
    UNION {[body : {b}, event : {"push"},
            signature : {NoHeader, ValidHeader(b),
                         Header(<<Lit("sha256"), Lit("="), NonAscii>>)}] :
            b \in VerifyBodies}

VerifyInit ==
    /\ env \in {e \in SendEnvironments : e.HTTP_MAX_RETRIES = 1}
    /\ pc = "idle"
    /\ NoFrame
    /\ Loaded
    /\ backlog = 0
    /\ verdicts = <<>>

\* _verify_signature(header_signature, raw_body), called directly.
VerifyCall(header_signature, raw_body) ==
    /\ Len(verdicts) < MaxVerifications
    /\ verdicts' = Append(verdicts,
                          [secret |-> GITHUB_WEBHOOK_SECRET,
                           signature |-> header_signature,
                           body |-> raw_body,
                           verdict |-> _verify_signature(header_signature, raw_body)])
    /\ UNCHANGED <<env, os_environ, loaded, load_error, backlog,
                   pc, request, payload, locals, sending, response, calls, resp>>

VerifyReceive ==
    /\ pc = "idle"
    /\ pc' = "verify"
    /\ request' \in VerifyRequests
    /\ UNCHANGED <<fixed, payload, locals, sending, response, calls, resp>>

VerifyNext ==
    \/ \E b \in VerifyBodies : \E h \in VerifyHeaders(b) : VerifyCall(h, b)
    \/ VerifyReceive
    \/ VerifySignature
    \/ ParseBody
    \/ FilterEvent
    \/ Close

SpecVerify == VerifyInit /\ [][VerifyNext]_vars

(***************************************************************************)
(* The server as uvicorn.run(app) runs it: one process, one event loop.    *)
(* github_webhook is a coroutine of that loop; after its one await, of the *)
(* request body, it calls time.sleep and requests.post directly, so it     *)
(* holds the loop until it returns.  backlog counts the connections that   *)
(* have arrived and that the loop has not accepted yet.                    *)
(***************************************************************************)
OpenedIssue ==
    [shape |-> "object", action |-> "opened",
     sender |-> Member("object", [NoFields EXCEPT !.login = WATCH_USER]),
     issue |-> Member("object", [NoFields EXCEPT !.number = "8", !.title = "Deck stats",
                                                 !.body = "Please add stats"]),
     comment |-> Member("missing", NoFields)]

LoopRequests ==
    LET b == [kind |-> "json", doc |-> OpenedIssue]
    IN [body : {b}, signature : {NoHeader, ValidHeader(b)}, event : {"issues"}]

LoopInit ==
    /\ env \in {e \in SendEnvironments : e.HTTP_MAX_RETRIES = 2}
    /\ pc = "idle"
    /\ NoFrame
    /\ Loaded
    /\ backlog = 0
    /\ verdicts = <<>>

\* A client connects and sends a webhook request.
Arrive ==
    /\ backlog < MaxBacklog
    /\ backlog' = backlog + 1
    /\ UNCHANGED <<env, os_environ, loaded, load_error, verdicts,
                   pc, request, payload, locals, sending, response, calls, resp>>

\* The event loop, running no handler, accepts a waiting connection and
\* starts github_webhook for it.
Accept ==
    /\ pc = "idle"
    /\ backlog > 0
    /\ backlog' = backlog - 1
    /\ pc' = "verify"
    /\ request' \in LoopRequests
    /\ UNCHANGED <<env, os_environ, loaded, load_error, verdicts,
                   payload, locals, sending, response, calls, resp>>

LoopNext ==
    \/ Arrive
    \/ Accept
    \/ VerifySignature
    \/ ParseBody
    \/ FilterEvent
    \/ ExtractFields
    \/ FilterSender
    \/ \E outcome \in GenOutcomes : GeneratePrompt(outcome)
    \/ PostGithubComment
    \/ \E outcome \in GithubStatuses \cup PushoverStatuses \cup TransportErrors :
            SendAttempt(outcome)
    \/ Backoff
    \/ CommentResult
    \/ NotifyPushover
    \/ NotifyResult
    \/ Respond
    \/ Close

SpecLoop == LoopInit /\ [][LoopNext]_vars

(***************************************************************************)
(* Vocabulary of the properties, stated on the request as it arrived and   *)
(* on the calls made for it.                                               *)
(***************************************************************************)
\* The header is sha256= followed by the hex HMAC-SHA256 of the raw body
\* under the shared secret.
SignatureMatches ==
    request.signature =
        Header(<<Lit("sha256"), Lit("="),
                 [lit |-> "<hexdigest>",
                  mac |-> [key |-> GITHUB_WEBHOOK_SECRET, msg |-> request.body]]>>)

BodyIsJson == request.body.kind = "json"

EventAccepted == request.event \in {"issues", "issue_comment"}

\* sender.login of the payload as sent: "" when there is none.
SentLogin ==
    IF BodyIsJson /\ request.body.doc.shape = "object"
          /\ request.body.doc.sender.shape = "object"
          /\ request.body.doc.sender.f.login # Missing
    THEN request.body.doc.sender.f.login
    ELSE ""

CallsOf(op) == {i \in 1..Len(calls) : calls[i].op = op}

GithubPosts ==
    {i \in 1..Len(calls) : calls[i].op = "requests.post" /\ calls[i].note = "GitHub comment"}

PushoverPosts ==
    {i \in 1..Len(calls) :
        calls[i].op = "requests.post" /\ calls[i].note = "Pushover notification"}

Ignored == resp = [status |-> 200, msg |-> "ignored"]

Processed == resp = [status |-> 200, msg |-> "processed"]

\* C1: a create-comment request has been issued for a request only if its
\* signature matches the raw body, its sender.login is WATCH_USER and its
\* event is issues or issue_comment.
C1_CommentOnlyIfAuthorised ==
    (GithubPosts # {} \/ CallsOf("post_github_comment") # {}) =>
        (SignatureMatches /\ SentLogin = WATCH_USER /\ EventAccepted)

C1_Witness == pc = "done" /\ GithubPosts # {} /\ SignatureMatches

\* C2: a request whose signature header does not match is answered 401,
\* whatever its body, and no generator, comment or notification call is made.
C2_BadSignatureIs401 ==
    (pc = "done" /\ ~SignatureMatches) => (resp.status = 401 /\ calls = <<>>)

\* C3: a validly signed request whose body is not JSON (bytes that are not
\* text included) is answered 400 and no call is made.
C3_NonJsonIs400 ==
    (pc = "done" /\ SignatureMatches /\ ~BodyIsJson) =>
        (resp.status = 400 /\ calls = <<>>)

\* C4: a validly signed JSON request whose event (ping when absent) is outside
\* {issues, issue_comment} is answered 200 ignored with no comment call,
\* whatever the payload holds.
C4_OtherEventsIgnored ==
    (SignatureMatches /\ BodyIsJson /\ ~EventAccepted) =>
        /\ GithubPosts = {} /\ CallsOf("post_github_comment") = {}
        /\ pc = "done" => Ignored

C4_Witness ==
    /\ pc = "done" /\ SignatureMatches /\ BodyIsJson /\ ~EventAccepted /\ Ignored
    /\ request.body.doc.shape = "array"
    /\ request.event = Missing

\* The payload is a JSON object whose sender, issue and comment members are
\* each an object or not there, as GitHub sends it.
WellFormed ==
    /\ BodyIsJson
    /\ request.body.doc.shape = "object"
    /\ \A m \in {request.body.doc.sender, request.body.doc.issue, request.body.doc.comment} :
            m.shape \in {"missing", "object"}

SentAction == request.body.doc.action

\* C5: a validly signed issues or issue_comment request whose sender.login is
\* not WATCH_USER (a missing sender included) is answered 200 ignored and
\* post_github_comment is never called.
C5_OtherSendersIgnored ==
    (/\ pc = "done" /\ SignatureMatches /\ EventAccepted
     /\ BodyIsJson /\ request.body.doc.shape = "object"
     /\ request.body.doc.sender.shape \in {"missing", "object"}
     /\ SentLogin # WATCH_USER) =>
        (Ignored /\ CallsOf("post_github_comment") = {})

\* C6: from WATCH_USER, an issues event whose action is not opened and an
\* issue_comment event whose action is not created are answered 200 ignored
\* and post_github_comment is never called.
C6_OtherActionsIgnored ==
    (/\ pc = "done" /\ SignatureMatches /\ WellFormed /\ SentLogin = WATCH_USER
     /\ \/ request.event = "issues" /\ SentAction # "opened"
        \/ request.event = "issue_comment" /\ SentAction # "created") =>
        (Ignored /\ CallsOf("post_github_comment") = {})

\* The payload's issue number and title, as github_webhook is to pass them on.
SentNumber ==
    IF request.body.doc.issue.f.number = Missing THEN PyNone
    ELSE request.body.doc.issue.f.number

SentTitle ==
    IF request.body.doc.issue.f.title = Missing THEN ""
    ELSE request.body.doc.issue.f.title

\* C7: every validly signed issues or issue_comment request from WATCH_USER
\* has the generator called once, then post_github_comment called once with
\* the payload's issue number and title and the banner, a blank line and the
\* fenced prompt as body, and is answered 200 processed.
C7_ProcessedOnce ==
    (pc = "done" /\ SignatureMatches /\ EventAccepted /\ SentLogin = WATCH_USER) =>
        /\ Processed
        /\ \E g, p \in 1..Len(calls) :
            /\ g < p
            /\ CallsOf("generate_codex_prompt") = {g}
            /\ CallsOf("post_github_comment") = {p}
            /\ calls[p].number = SentNumber
            /\ calls[p].title = SentTitle
            /\ calls[p].text =
                "**Prompt ready for Codex:**" \o "\n\n" \o Fence \o "\n"
                    \o locals.codex_prompt \o "\n" \o Fence

\* What a title or body contributes to the text: nothing when it is missing,
\* null or empty.
Part(v) == IF v \in {Missing, PyNone, ""} THEN "" ELSE v

\* C8: the text passed to generate_codex_prompt is the comment body when
\* there is a non-empty one, and otherwise the issue title, a blank line and
\* the issue body, a missing or empty title or body contributing nothing.
C8_TextSource ==
    \A g \in CallsOf("generate_codex_prompt") :
        calls[g].text =
            IF Part(request.body.doc.comment.f.body) # ""
            THEN request.body.doc.comment.f.body
            ELSE Part(request.body.doc.issue.f.title) \o "\n\n"
                    \o Part(request.body.doc.issue.f.body)

\* C9: notify_pushover is called if and only if the create-comment call
\* returned a response with status 200 or 201: then once, right after that
\* call, with the issue number and title post_github_comment was given; never
\* after another status or after every attempt raised.
C9_NotifyIffPosted ==
    LET N == CallsOf("notify_pushover")
        P == CallsOf("post_github_comment")
    IN /\ \A a, b \in N : a = b
       /\ \A j \in N :
            /\ j - 1 \in GithubPosts
            /\ calls[j - 1].result \in {200, 201}
            /\ \E p \in P :
                /\ p < j
                /\ calls[j].number = calls[p].number
                /\ calls[j].title = calls[p].title
       /\ (P # {} /\ pc \in {"respond", "done"}) =>
            ((\E i \in GithubPosts : calls[i].result \in {200, 201}) <=> N # {})

C9_Witness ==
    /\ pc = "done"
    /\ CallsOf("notify_pushover") # {}
    /\ \E i \in GithubPosts : calls[i].result = RequestException

\* C10: whatever the text and whatever the backend failure (no client, an
\* error of the call, a malformed response), generate_codex_prompt returns
\* the placeholder without raising, post_github_comment is still called with
\* a body holding the placeholder, and the request is answered 200 processed.
C10_GeneratorTotal ==
    \A g \in CallsOf("generate_codex_prompt") :
        calls[g].note # "ok" =>
            /\ locals.codex_prompt = "Failed to generate Codex prompt."
            /\ resp.status \in {0, 200}
            /\ pc = "done" =>
                /\ Processed
                /\ \E p \in CallsOf("post_github_comment") :
                    /\ p > g
                    /\ calls[p].text =
                        Banner \o "\n\n" \o Fence \o "\n"
                            \o "Failed to generate Codex prompt." \o "\n" \o Fence

C10_Witness ==
    /\ pc = "done" /\ Processed
    /\ \E g \in CallsOf("generate_codex_prompt") : calls[g].note = "malformed"
    /\ GithubPosts # {}

\* The request has passed the signature, parse, event and sender filters.
PassedFilters == CallsOf("generate_codex_prompt") # {}

\* C11: a request that has passed every filter is answered 200 processed
\* whatever happens downstream: the comment published, refused with another
\* status or out of retries; the notification sent, refused or out of retries.
C11_DownstreamNeverSurfaces ==
    PassedFilters =>
        /\ resp \in {NoResp, [status |-> 200, msg |-> "processed"]}
        /\ pc = "done" => Processed

\* Both downstream calls failed: the comment was published only after a
\* transport error and the notification ran out of retries.
C11_Witness ==
    /\ pc = "done" /\ Processed
    /\ \E i \in GithubPosts : calls[i].result = RequestException
    /\ PushoverPosts # {}
    /\ \A i \in PushoverPosts : calls[i].result = RequestException

\* A publish refused by GitHub is answered processed as well.
C11_WitnessRefused ==
    /\ pc = "done" /\ Processed
    /\ \E i \in GithubPosts : calls[i].result = 404

\* C13: every request ends in 401, 400, 200 ignored or 200 processed and never
\* in an unhandled error: a validly signed JSON payload of any shape (not an
\* object, or with a sender, issue or comment that is missing, null or no
\* object) has its fields read as empty values.
C13_FourTerminalStates ==
    (pc = "done" /\ SignatureMatches /\ BodyIsJson) =>
        \/ Ignored
        \/ Processed
        \/ resp.status \in {400, 401}

\* The create-comment requests GitHub has taken and served: those answered
\* 200 or 201, and those whose answer was lost to a timeout.
CommentsCreated ==
    {i \in GithubPosts : calls[i].result \in {200, 201, TimeoutAfterAccept}}

\* C20: at most one comment is created on the issue for a processed request,
\* also when a transport error makes _send_with_retries send the
\* create-comment request again.
C20_AtMostOneComment == \A i, j \in CommentsCreated : i = j

\* _send_with_retries has returned to its caller.
Returned == pc \in {"comment_result", "notify_result"}

\* C15: with PUSHOVER_USER_KEY or PUSHOVER_API_TOKEN unset or empty,
\* notify_pushover returns without an outbound HTTP call and without entering
\* _send_with_retries, whatever the title, issue number and message.
C15_NoCallWithoutKeys ==
    (env.PUSHOVER_USER_KEY \in {PyNone, ""} \/ env.PUSHOVER_API_TOKEN \in {PyNone, ""}) =>
        /\ calls = <<>>
        /\ sending = NoSending
        /\ pc \in {"notify", "respond"}

C15_Witness ==
    /\ pc = "respond"
    /\ env.PUSHOVER_USER_KEY = "user"
    /\ env.PUSHOVER_API_TOKEN = ""
    /\ locals.message = "Prompt posted"
    /\ calls = <<>>

\* C17: _send_with_retries invokes the operation at least once and at most
\* HTTP_MAX_RETRIES times, stops at the first invocation that returns a
\* response and returns it unchanged whatever its status, and returns None
\* exactly when all HTTP_MAX_RETRIES invocations raised a transport error.
C17_AttemptsAndResult ==
    LET P == CallsOf("requests.post")
        raised(i) == calls[i].result \in TransportErrors
    IN /\ Cardinality(P) <= env.HTTP_MAX_RETRIES
       /\ \A i \in P : calls[i].n = Cardinality({j \in P : j <= i})
       /\ \A i \in P : ~raised(i) =>
            /\ i = Len(calls)
            /\ Returned
            /\ response = calls[i].result
       /\ Returned =>
            /\ Cardinality(P) >= 1
            /\ (response = NoResponse) <=>
                    /\ Cardinality(P) = env.HTTP_MAX_RETRIES
                    /\ \A i \in P : raised(i)

\* A bad status that came after a transport error is returned, not retried.
C17_Witness ==
    /\ Returned
    /\ response = 404
    /\ env.HTTP_MAX_RETRIES = 3
    /\ Cardinality(CallsOf("requests.post")) = 2

\* C18: after invocation k raised with k < HTTP_MAX_RETRIES there is exactly
\* one wait, of k times the backoff, before invocation k + 1; there is none
\* after the last invocation nor after a response: n invocations, n - 1 waits.
C18_BackoffOrder ==
    LET P == CallsOf("requests.post")
        S == CallsOf("time.sleep")
    IN /\ \A i \in S :
            /\ i > 1
            /\ calls[i - 1].op = "requests.post"
            /\ calls[i - 1].result \in TransportErrors
            /\ calls[i].n = calls[i - 1].n
            /\ calls[i].n < env.HTTP_MAX_RETRIES
       /\ \A i \in P :
            IF calls[i].n = 1 THEN i = 1
            ELSE /\ calls[i - 1].op = "time.sleep"
                 /\ calls[i - 1].n = calls[i].n - 1
       /\ Returned =>
            /\ calls[Len(calls)].op = "requests.post"
            /\ Cardinality(S) = Cardinality(P) - 1

C18_Witness ==
    /\ Returned
    /\ response = NoResponse
    /\ Cardinality(CallsOf("requests.post")) = 3
    /\ Cardinality(CallsOf("time.sleep")) = 2

\* The first required name whose value is unset or empty, "" when there is none.
FirstAbsent ==
    LET absent == {i \in 1..Len(RequiredNames) : ~Truthy(os_getenv(os_environ, i))}
    IN IF absent = {} THEN ""
       ELSE RequiredNames[CHOOSE i \in absent : \A j \in absent : i <= j]

\* C16: when GITHUB_TOKEN, OPENAI_API_KEY, WATCH_USER, REPO or
\* GITHUB_WEBHOOK_SECRET is unset or empty the module load ends in the
\* RuntimeError of _require_env that names the first such variable, and the
\* process never serves or accepts a request with one of them absent.
C16_FailFastStartup ==
    /\ pc \notin {"import", "import_error"} => FirstAbsent = ""
    /\ request # NoRequest => FirstAbsent = ""
    /\ pc = "import_error" => load_error = FirstAbsent /\ load_error # ""
    /\ (pc = "import" /\ FirstAbsent # "") =>
            /\ Len(loaded) < Len(RequiredNames)
            /\ \A i \in 1..Len(loaded) : loaded[i] # FirstAbsent

C16_Witness ==
    /\ pc = "import_error"
    /\ load_error = "REPO"
    /\ os_environ[4] = ""
    /\ os_environ[5] = Missing
    /\ Len(loaded) = 3

\* C14: _verify_signature never raises and fails closed: every call returns
\* True or False, and True only for the header sha256=<hex HMAC-SHA256 of the
\* raw body under the secret>.
C14_FailsClosedNeverRaises ==
    \A i \in 1..Len(verdicts) :
        /\ verdicts[i].verdict \in {"True", "False"}
        /\ verdicts[i].verdict = "True" <=> verdicts[i].signature = ValidHeader(verdicts[i].body)

C12_AcceptedWhileRetrying ==
    (pc \in {"send", "backoff"} /\ backlog > 0) => ENABLED Accept

====
